---- MODULE Spec2Model ----
(***************************************************************************)
(* Model of the card price pipeline of aleksanderkav/scraper:              *)
(*   - the Supabase edge function (serve handler) that forwards a query    *)
(*     to the scraper and writes cards, price_entries and card_prices;     *)
(*   - the SQL function calculate_card_price_summary and the documented    *)
(*     sync UPDATE of card_prices;                                         *)
(*   - the read view cards_with_prices and the dashboard's fetchPriceData. *)
(* Every await of the handler is one atomic step, so that concurrent       *)
(* requests interleave exactly at the points where the code yields.        *)
(***************************************************************************)
EXTENDS Integers, Sequences, FiniteSets, TLC

\* ------------------------------------------------------------------ bounds
MaxBatch == 2          \* longest price list the scraper returns
MaxTime == 2           \* scraper timestamps are 1..MaxTime

Reqs == {"r1", "r2"}                 \* concurrent requests to the edge function
Names == {"Foo", "Bar"}              \* query strings / card names
Prices == {0, 50, 100}               \* prices the scraper may report
Times == 1..MaxTime
Methods == {"POST", "OPTIONS", "GET"}
BodyKinds == {"malformed", "missing", "empty", "nonstring", "string"}
ScraperOutcomes == {"http_error", "bad_json", "no_prices_field", "ok"}

\* price lists of the scraper: distinct prices in ascending order, as in the
\* documented response
Batches == UNION {{s \in [1..n -> Prices] : \A i \in 1..(n - 1) : s[i] < s[i + 1]} : n \in 0..MaxBatch}

\* ------------------------------------------------------------ SQL values
NULL == <<>>
Some(v) == <<v>>

RECURSIVE GCD(_, _)
GCD(a, b) == IF b = 0 THEN a ELSE GCD(b, a % b)

\* NUMERIC values that are results of AVG are kept as reduced fractions.
Rat(n, d) == LET g == GCD(n, d) IN IF n = 0 THEN <<0, 1>> ELSE <<n \div g, d \div g>>
Zero == <<0, 1>>

RECURSIVE SumSeq(_)
SumSeq(s) == IF s = <<>> THEN 0 ELSE Head(s) + SumSeq(Tail(s))

RECURSIVE MaxSeq(_)
MaxSeq(s) == IF Len(s) = 1 THEN s[1]
             ELSE LET m == MaxSeq(Tail(s)) IN IF Head(s) > m THEN Head(s) ELSE m

\* AVG(x) over a column: NULL over no rows
AVG(s) == IF s = <<>> THEN NULL ELSE Rat(SumSeq(s), Len(s))
\* MAX(x) over a column: NULL over no rows
MAX(s) == IF s = <<>> THEN NULL ELSE Some(MaxSeq(s))
COALESCE(v, dflt) == IF v = NULL THEN dflt ELSE v

\* ----------------------------------------------------------------- state
VARIABLES
  cards,          \* TABLE cards: sequence of [id, name], in creation order
  price_entries,  \* TABLE price_entries: sequence of [card_id, price, timestamp]
  card_prices,    \* TABLE card_prices: sequence of [card_id, average_price, last_seen, price_count]
  pc,             \* position of each request in the serve handler
  req,            \* locals of each request
  response,       \* Response returned by each request
  synced,         \* TRUE iff the last statement that wrote a table was the sync UPDATE
  view_result,    \* outcome of the last write statement issued against cards_with_prices
  app,            \* dashboard: which App is mounted ("" before the mount)
  cardsState,     \* dashboard: useState cards, the displayed library
  loading,        \* dashboard: useState loading (a search is in progress)
  libraryLoading, \* dashboard: useState libraryLoading
  searchStatus,   \* dashboard: useState searchStatus
  searchQuery,    \* dashboard: useState searchQuery
  fetchCalls,     \* dashboard: the invocations of fetchCards, in the order they started
  search,         \* dashboard: the invocation of handleSearch in progress
  timers          \* dashboard: number of pending setTimeout callbacks

dashboard == <<app, cardsState, loading, libraryLoading, searchStatus, searchQuery,
               fetchCalls, search, timers>>
backend == <<cards, price_entries, card_prices, pc, req, response, synced, view_result>>
vars == <<backend, dashboard>>
tables == <<cards, price_entries, card_prices>>

NoLocals == [method |-> "", body |-> "", query |-> "", outcome |-> "", prices |-> <<>>,
             average |-> Zero, timestamp |-> 0, cardId |-> 0, cardInserted |-> FALSE]
NoSearch == [pc |-> "idle", awaits |-> 0]
NoViewResult == [op |-> "", rejected |-> FALSE]
NoResponse == [status |-> 0, body_status |-> "", message |-> "", data |-> <<>>]

Init ==
  /\ cards = <<>>
  /\ price_entries = <<>>
  /\ card_prices = <<>>
  /\ pc = [r \in Reqs |-> "idle"]
  /\ req = [r \in Reqs |-> NoLocals]
  /\ response = [r \in Reqs |-> NoResponse]
  /\ synced = FALSE
  /\ view_result = NoViewResult
  /\ app = ""
  /\ cardsState = <<>>
  /\ loading = FALSE
  /\ libraryLoading = TRUE
  /\ searchStatus = ""
  /\ searchQuery = ""
  /\ fetchCalls = <<>>
  /\ search = NoSearch
  /\ timers = 0

\* ------------------------------------------------------- scraper response
\* The /scrape endpoint reports the mean of the prices it returns.
ScraperAverage(prices) == IF prices = <<>> THEN Zero ELSE Rat(SumSeq(prices), Len(prices))

\* ------------------------------------------------------ handler: responses
\* The handler's locals go out of scope when it returns; what the request was
\* (its method) and what the scraper answered (outcome) stay on record.
Returned(locals) ==
  [NoLocals EXCEPT !.method = locals.method, !.body = locals.body, !.outcome = locals.outcome]

Return(r, locals, status, body_status, message, data) ==
  /\ response' = [response EXCEPT ![r] =
        [status |-> status, body_status |-> body_status, message |-> message, data |-> data]]
  /\ req' = [req EXCEPT ![r] = Returned(locals)]
  /\ pc' = [pc EXCEPT ![r] = "done"]

\* variant: the catch block answers with the validation status
ThrowAs400(r, locals, errorMessage) ==
  Return(r, locals, 400, "error", "Internal server error", <<errorMessage>>)

\* catch (error): every thrown Error becomes a 500 'Internal server error'
Throw(r, locals, errorMessage) ==
  Return(r, locals, 500, "error", "Internal server error", <<errorMessage>>)

\* ----------------------------------------- handler: CORS, method and body
\* variant: GET is let through as well
IsPostOrGet(method) == method \in {"POST", "GET"}

\* req.method !== 'POST'
IsPost(method) == method = "POST"

\* variant: the typeof test is forgotten, any truthy query is accepted
InvalidQueryNoType(kind) == kind \in {"missing", "empty"}

\* !body.query || typeof body.query !== 'string'
InvalidQuery(kind) == kind \in {"missing", "empty", "nonstring"}

Receive(r) ==
  /\ pc[r] = "idle"
  /\ \E method \in Methods, kind \in BodyKinds, query \in Names :
       LET head == [req[r] EXCEPT !.method = method]
           locals == [head EXCEPT !.body = kind, !.query = query] IN
       IF method = "OPTIONS" THEN Return(r, head, 200, "", "ok", <<>>)
       ELSE IF ~IsPost(method)
         THEN Return(r, head, 405, "error", "Method not allowed. Only POST requests are supported.", <<>>)
       ELSE IF kind = "malformed" THEN Throw(r, locals, "req.json")
       ELSE IF InvalidQuery(kind)
         THEN Return(r, locals, 400, "error", "Invalid request body. query field is required and must be a string.", <<>>)
       ELSE /\ req' = [req EXCEPT ![r] = locals]
            /\ pc' = [pc EXCEPT ![r] = "fetchScraper"]
            /\ UNCHANGED response
  /\ UNCHANGED <<tables, synced, view_result, dashboard>>

\* ------------------------------------------------ handler: scraper call
\* variant: the length test is forgotten, only a missing list is caught
NoPricesFieldOnly(outcome, prices) == outcome = "no_prices_field"

\* !scraperData.prices || !Array.isArray(scraperData.prices) || scraperData.prices.length === 0
NoPrices(outcome, prices) == outcome = "no_prices_field" \/ Len(prices) = 0

FetchScraper(r) ==
  /\ pc[r] = "fetchScraper"
  /\ \E outcome \in ScraperOutcomes, prices \in Batches, timestamp \in Times :
       /\ outcome # "ok" => (prices = <<>> /\ timestamp = 1)
       /\ LET locals == [req[r] EXCEPT !.outcome = outcome, !.prices = prices,
                                       !.average = ScraperAverage(prices),
                                       !.timestamp = timestamp] IN
          IF outcome = "http_error" THEN Throw(r, locals, "Scraper API error")
          ELSE IF outcome = "bad_json" THEN Throw(r, locals, "scraperResponse.json")
          ELSE IF NoPrices(outcome, prices)
            THEN Return(r, locals, 400, "error", "No prices found in scraper response", <<>>)
          ELSE /\ req' = [req EXCEPT ![r] = locals]
               /\ pc' = [pc EXCEPT ![r] = "checkCard"]
               /\ UNCHANGED response
  /\ UNCHANGED <<tables, synced, view_result, dashboard>>

\* ------------------------------------------- handler: card check / insert
CardIdsNamed(name) == {i \in 1..Len(cards) : cards[i].name = name}

CheckCard(r) ==
  /\ pc[r] = "checkCard"
  /\ \E dbOk \in BOOLEAN :
       IF ~dbOk THEN Throw(r, req[r], "Error checking card existence")
       ELSE LET found == CardIdsNamed(req[r].query) IN
            IF Cardinality(found) = 1
              THEN /\ req' = [req EXCEPT ![r].cardId = cards[CHOOSE i \in found : TRUE].id]
                   /\ pc' = [pc EXCEPT ![r] = "insertPrices"]
                   /\ UNCHANGED response
              ELSE \* PGRST116: .single() found no row
                   /\ pc' = [pc EXCEPT ![r] = "insertCard"]
                   /\ UNCHANGED <<req, response>>
  /\ UNCHANGED <<tables, synced, view_result, dashboard>>

\* variant: cards.name carries no UNIQUE constraint
CardsUniqueOff(name) == TRUE

\* name TEXT UNIQUE NOT NULL
CardsUniqueOk(name) == CardIdsNamed(name) = {}

InsertCard(r) ==
  /\ pc[r] = "insertCard"
  /\ \E dbOk \in BOOLEAN :
       IF dbOk /\ CardsUniqueOk(req[r].query)
         THEN /\ cards' = Append(cards, [id |-> Len(cards) + 1, name |-> req[r].query])
              /\ req' = [req EXCEPT ![r].cardId = Len(cards) + 1, ![r].cardInserted = TRUE]
              /\ pc' = [pc EXCEPT ![r] = "insertPrices"]
              /\ synced' = FALSE
              /\ UNCHANGED response
         ELSE /\ Throw(r, req[r], "Error inserting card")
              /\ UNCHANGED <<cards, synced>>
  /\ UNCHANGED <<price_entries, card_prices, view_result, dashboard>>

\* --------------------------------------------- handler: price_entries
\* scraperData.prices.map(price => ({card_id, price, timestamp}))
priceEntries(r) ==
  [i \in 1..Len(req[r].prices) |->
     [card_id |-> req[r].cardId, price |-> req[r].prices[i], timestamp |-> req[r].timestamp]]

\* variant: rows are sent one by one, the rows before the failing one stay
BulkInsertPartial(rows, ok) ==
  IF ok THEN price_entries \o rows ELSE price_entries \o SubSeq(rows, 1, Len(rows) - 1)

\* variant: the insert reports success but stores nothing
BulkInsertLost(rows, ok) == price_entries

\* variant: the insert first removes the rows the card already has
BulkInsertReplacing(rows, ok) ==
  IF ok THEN SelectSeq(price_entries, LAMBDA e : \A i \in 1..Len(rows) : e.card_id # rows[i].card_id) \o rows
  ELSE price_entries

\* .from('price_entries').insert(rows): one INSERT statement, all rows or none
BulkInsert(rows, ok) == IF ok THEN price_entries \o rows ELSE price_entries

InsertPrices(r) ==
  /\ pc[r] = "insertPrices"
  /\ \E dbOk \in BOOLEAN :
       /\ price_entries' = BulkInsert(priceEntries(r), dbOk)
       /\ IF dbOk THEN /\ pc' = [pc EXCEPT ![r] = "checkCardPrice"]
                       /\ synced' = FALSE
                       /\ UNCHANGED <<req, response>>
          ELSE /\ Throw(r, req[r], "Error inserting price entries")
               /\ UNCHANGED synced
  /\ UNCHANGED <<cards, card_prices, view_result, dashboard>>

\* ------------------------------------------------ handler: card_prices
CardPriceRows(cardId) == {i \in 1..Len(card_prices) : card_prices[i].card_id = cardId}

CheckCardPrice(r) ==
  /\ pc[r] = "checkCardPrice"
  /\ \E dbOk \in BOOLEAN :
       IF ~dbOk THEN Throw(r, req[r], "Error checking card price existence")
       ELSE /\ pc' = [pc EXCEPT ![r] =
                 IF Cardinality(CardPriceRows(req[r].cardId)) = 1
                   THEN "updateCardPrice" ELSE "insertCardPrice"]
            /\ UNCHANGED <<req, response>>
  /\ UNCHANGED <<tables, synced, view_result, dashboard>>

Success(r) ==
  Return(r, req[r], 200, "success", "Data processed successfully",
         [cardInserted |-> req[r].cardInserted,
          priceEntriesInserted |-> Len(req[r].prices),
          cardPriceUpdated |-> TRUE])

\* variant: the update adds a row instead of changing the card's row
UpdatedCardPricesAppended(cardId, average, timestamp) ==
  Append(card_prices, [card_id |-> cardId, average_price |-> average,
                       last_seen |-> timestamp, price_count |-> NULL])

\* .update({average_price: scraperData.average, last_seen: scraperData.timestamp}).eq('card_id', cardId)
UpdatedCardPrices(cardId, average, timestamp) ==
  [i \in 1..Len(card_prices) |->
     IF card_prices[i].card_id = cardId
       THEN [card_prices[i] EXCEPT !.average_price = average, !.last_seen = timestamp]
       ELSE card_prices[i]]

UpdateCardPrice(r) ==
  /\ pc[r] = "updateCardPrice"
  /\ \E dbOk \in BOOLEAN :
       IF dbOk
         THEN /\ card_prices' = UpdatedCardPrices(req[r].cardId, req[r].average, req[r].timestamp)
              /\ synced' = FALSE
              /\ Success(r)
         ELSE /\ Throw(r, req[r], "Error updating card price")
              /\ UNCHANGED <<card_prices, synced>>
  /\ UNCHANGED <<cards, price_entries, view_result, dashboard>>

\* variant: card_prices.card_id carries no UNIQUE constraint
CardPricesUniqueOff(cardId) == TRUE

\* card_id UUID REFERENCES cards(id) ON DELETE CASCADE UNIQUE
CardPricesUniqueOk(cardId) == CardPriceRows(cardId) = {}

\* .insert({card_id, average_price: scraperData.average, last_seen: scraperData.timestamp})
NewCardPrice(cardId, average, timestamp) ==
  [card_id |-> cardId, average_price |-> average, last_seen |-> timestamp, price_count |-> NULL]

InsertCardPrice(r) ==
  /\ pc[r] = "insertCardPrice"
  /\ \E dbOk \in BOOLEAN :
       IF dbOk /\ CardPricesUniqueOk(req[r].cardId)
         THEN /\ card_prices' = Append(card_prices,
                    NewCardPrice(req[r].cardId, req[r].average, req[r].timestamp))
              /\ synced' = FALSE
              /\ Success(r)
         ELSE /\ Throw(r, req[r], "Error inserting card price")
              /\ UNCHANGED <<card_prices, synced>>
  /\ UNCHANGED <<cards, price_entries, view_result, dashboard>>

\* ----------------------------------- calculate_card_price_summary + sync
EntriesOf(entries, cardId) == SelectSeq(entries, LAMBDA e : e.card_id = cardId)
\* the price and timestamp columns of a sequence of price_entries rows
PricesIn(rows) == [i \in 1..Len(rows) |-> rows[i].price]
TimestampsIn(rows) == [i \in 1..Len(rows) |-> rows[i].timestamp]

calculate_card_price_summary(entries, card_uuid) ==
  LET pe == EntriesOf(entries, card_uuid) IN
  [average_price |-> AVG(PricesIn(pe)),
   last_seen |-> MAX(TimestampsIn(pe)),
   price_count |-> Len(pe)]

\* WITH calculated_prices AS (SELECT ... FROM cards c CROSS JOIN LATERAL calculate_card_price_summary(c.id) cp)
calculated_prices(cs, entries) ==
  [i \in 1..Len(cs) |->
     LET cp == calculate_card_price_summary(entries, cs[i].id) IN
     [card_id |-> cs[i].id, calculated_average |-> cp.average_price,
      calculated_last_seen |-> cp.last_seen, calculated_count |-> cp.price_count]]

\* variant: the stored average is blended with the calculated one
SyncRowSmoothed(row, calc) ==
  LET a == row.average_price
      b == calc.calculated_average
  IN [row EXCEPT !.average_price = Rat(a[1] * b[2] + b[1] * a[2], 2 * a[2] * b[2]),
                 !.last_seen = IF calc.calculated_last_seen = NULL THEN 0
                               ELSE calc.calculated_last_seen[1]]

\* variant: the UPDATE sets average_price only
SyncRowAverageOnly(row, calc) == [row EXCEPT !.average_price = calc.calculated_average]

\* SET average_price = cp.calculated_average, last_seen = cp.calculated_last_seen
SyncRow(row, calc) ==
  [row EXCEPT !.average_price = calc.calculated_average,
              !.last_seen = IF calc.calculated_last_seen = NULL THEN 0
                            ELSE calc.calculated_last_seen[1]]

\* UPDATE card_prices ... FROM calculated_prices cp WHERE card_prices.card_id = cp.card_id
SyncedCardPrices(cps, cs, entries) ==
  LET calc == calculated_prices(cs, entries) IN
  [i \in 1..Len(cps) |->
     LET m == {j \in 1..Len(calc) : calc[j].card_id = cps[i].card_id} IN
     IF m = {} THEN cps[i] ELSE SyncRow(cps[i], calc[CHOOSE j \in m : TRUE])]

\* average_price NUMERIC NOT NULL, last_seen TIMESTAMP WITH TIME ZONE NOT NULL
SyncViolatesNotNull(cs, entries) ==
  \E i \in 1..Len(card_prices) :
     \E j \in 1..Len(cs) :
        /\ cs[j].id = card_prices[i].card_id
        /\ EntriesOf(entries, cs[j].id) = <<>>

\* (over an empty card_prices the UPDATE touches no row)
Sync ==
  /\ card_prices # <<>>
  /\ card_prices' = IF SyncViolatesNotNull(cards, price_entries) THEN card_prices
                    ELSE SyncedCardPrices(card_prices, cards, price_entries)
  /\ synced' = TRUE
  /\ UNCHANGED <<cards, price_entries, pc, req, response, view_result, dashboard>>

\* -------------------------------------------------------------- read view
\* CREATE VIEW cards_with_prices AS SELECT ... FROM cards c LEFT JOIN card_prices cp ON c.id = cp.card_id
ViewRow(c, cp) ==
  [id |-> c.id, name |-> c.name,
   latest_price |-> COALESCE(cp.average_price, Zero),
   last_price_update |-> cp.last_seen,
   price_count |-> COALESCE(cp.price_count, Some(1))[1]]

NullCardPrice == [average_price |-> NULL, last_seen |-> NULL, price_count |-> NULL]

cards_with_prices ==
  UNION {
    LET m == CardPriceRows(cards[i].id) IN
    IF m = {} THEN {ViewRow(cards[i], NullCardPrice)}
    ELSE {ViewRow(cards[i], [card_prices[j] EXCEPT !.last_seen = Some(card_prices[j].last_seen)]) : j \in m}
    : i \in 1..Len(cards)}

\* ------------------------------------------------- dashboard: fetchPriceData
\* joinedData.map(card => ({...card, latest_price: priceData?.average_price || null,
\*                          price_count: 1, last_price_update: priceData?.last_seen || null}))
fetchPriceData ==
  { LET m == CardPriceRows(cards[i].id) IN
    IF m = {}
      THEN [id |-> cards[i].id, name |-> cards[i].name, latest_price |-> NULL,
            price_count |-> 1, last_price_update |-> NULL]
      ELSE LET priceData == card_prices[CHOOSE j \in m : \A k \in m : j <= k] IN
           [id |-> cards[i].id, name |-> cards[i].name,
            latest_price |-> IF priceData.average_price = Zero THEN NULL
                             ELSE priceData.average_price,
            price_count |-> 1,
            last_price_update |-> Some(priceData.last_seen)]
    : i \in 1..Len(cards) }

\* ------------------------------------------------- writes on the read view
ViewOps == {"insert", "update", "delete"}

\* variant: the view selects from cards alone
cards_only_from == <<"cards">>

\* FROM cards c LEFT JOIN card_prices cp ON c.id = cp.card_id
cards_with_prices_from == <<"cards", "card_prices">>

\* A view takes INSERT, UPDATE and DELETE for its base table only when its FROM
\* list has exactly one entry; no INSTEAD OF trigger or rule is created on
\* cards_with_prices.
AutoUpdatable(from) == Len(from) = 1

\* the statement as it would reach cards (price_entries and card_prices rows
\* follow their card ON DELETE CASCADE)
ViewWriteThrough(op, name) ==
  /\ cards' = IF op = "insert" /\ CardsUniqueOk(name)
                THEN Append(cards, [id |-> Len(cards) + 1, name |-> name])
              ELSE IF op = "update" /\ cards # <<>> /\ CardsUniqueOk(name)
                THEN [cards EXCEPT ![1].name = name]
              ELSE IF op = "delete" THEN <<>>
              ELSE cards
  /\ price_entries' = IF op = "delete" THEN <<>> ELSE price_entries
  /\ card_prices' = IF op = "delete" THEN <<>> ELSE card_prices

\* supabase.from('cards_with_prices').insert(...) / .update(...) / .delete(): "This will fail!"
ViewWrite ==
  /\ \E op \in ViewOps, name \in Names :
       IF AutoUpdatable(cards_with_prices_from)
         THEN /\ ViewWriteThrough(op, name)
              /\ view_result' = [op |-> op, rejected |-> FALSE]
         ELSE /\ view_result' = [op |-> op, rejected |-> TRUE]
              /\ UNCHANGED tables
  /\ UNCHANGED <<pc, req, response, synced, dashboard>>

\* ------------------------------------------------ dashboard: getFilteredCards
\* values of the number inputs "Min Price ($)" and "Max Price ($)"
PriceBounds == {0, 75, 1000}
\* priceRange.min / priceRange.max: '' (NULL) or a number
PriceInputs == {NULL} \cup {Some(n) : n \in PriceBounds}
FilterQueries == {""} \cup Names

\* card.latest_price >= parseFloat(bound), card.latest_price <= parseFloat(bound)
PriceGeq(p, n) == p[1] >= n * p[2]
PriceLeq(p, n) == p[1] <= n * p[2]

\* card.name.toLowerCase().includes(filterQuery.toLowerCase()), for a filterQuery
\* that is a whole card name
NameIncludes(name, filterQuery) == name = filterQuery

getFilteredCards(rows, filterQuery, showOnlyMissingPrices, min, max) ==
  { card \in rows :
      /\ filterQuery # "" => NameIncludes(card.name, filterQuery)
      /\ showOnlyMissingPrices => (card.latest_price = Zero \/ PriceLeq(card.latest_price, 0))
      /\ min # NULL => PriceGeq(card.latest_price, min[1])
      /\ max # NULL => PriceLeq(card.latest_price, max[1]) }

\* ------------------------------------------------------- dashboard: state
MaxFetches == 3

Apps == {"src", "card-frontend"}
SearchQueries == {"", " ", "Foo"}

\* rows of GET /rest/v1/cards_with_prices as the dashboard receives them;
\* latest_price NULL stands for null or undefined
LibraryRow(name, price) == [name |-> name, latest_price |-> price]
Libraries ==
  {<<>>,
   <<LibraryRow("Foo", NULL), LibraryRow("Bar", <<0 - 50, 1>>),
     LibraryRow("Baz", Zero), LibraryRow("Qux", <<50, 1>>)>>}
\* what response.json() resolves to: an array of rows, or something else
Bodies == {Some(l) : l \in Libraries} \cup {NULL}

\* searchQuery.trim()
Trim(q) == IF q = " " THEN "" ELSE q

\* fetchCards invocations and setTimeout callbacks that the search in
\* progress is still going to start
Reserved ==
  IF search.pc \in {"fetch", "json"} THEN (IF app = "src" THEN 1 ELSE 2)
  ELSE IF search.pc = "fetchCards" THEN 1
  ELSE 0

Budget == Len(fetchCalls) + timers + Reserved

InFlight(f) == fetchCalls[f].pc \in {"fetch", "text", "json"}

\* ------------------------------------------------- dashboard: fetchCards
\* try { setLibraryLoading(true) ... const response = await fetch(apiUrl, { headers })
StartFetchCards ==
  /\ fetchCalls' = Append(fetchCalls, [pc |-> "fetch", setCards |-> NULL])
  /\ libraryLoading' = TRUE

\* variant: the catch block also empties the displayed list
FetchCardsCatchClears(f) ==
  /\ fetchCalls' = [fetchCalls EXCEPT ![f].pc = "failed"]
  /\ searchStatus' = "Error loading card library"
  /\ libraryLoading' = FALSE
  /\ cardsState' = <<>>

\* } catch (error) { setSearchStatus('Error loading card library') } finally { setLibraryLoading(false) }
FetchCardsCatch(f) ==
  /\ fetchCalls' = [fetchCalls EXCEPT ![f].pc = "failed"]
  /\ searchStatus' = "Error loading card library"
  /\ libraryLoading' = FALSE
  /\ UNCHANGED cardsState

\* useEffect(() => { fetchCards() }, [])
Mount ==
  /\ app = ""
  /\ \E version \in Apps : app' = version
  /\ StartFetchCards
  /\ UNCHANGED <<cardsState, loading, searchStatus, searchQuery, search, timers, backend>>

\* <button onClick={fetchCards} disabled={libraryLoading}>
Refresh ==
  /\ app # ""
  /\ ~libraryLoading
  /\ Budget < MaxFetches
  /\ StartFetchCards
  /\ UNCHANGED <<app, cardsState, loading, searchStatus, searchQuery, search, timers, backend>>

\* await fetch(apiUrl, { headers }) settles; if (!response.ok) ...
FetchCardsResponse(f) ==
  /\ fetchCalls[f].pc = "fetch"
  /\ \E outcome \in {"rejected", "not_ok", "ok"} :
       IF outcome = "rejected" THEN FetchCardsCatch(f)
       ELSE /\ fetchCalls' = [fetchCalls EXCEPT ![f].pc = IF outcome = "ok" THEN "json" ELSE "text"]
            /\ UNCHANGED <<cardsState, searchStatus, libraryLoading>>
  /\ UNCHANGED <<app, loading, searchQuery, search, timers, backend>>

\* const errorText = await response.text(); throw new Error(`HTTP error! status: ...`)
FetchCardsText(f) ==
  /\ fetchCalls[f].pc = "text"
  /\ FetchCardsCatch(f)
  /\ UNCHANGED <<app, loading, searchQuery, search, timers, backend>>

\* const cardsWithPrices = await response.json()
\* if (Array.isArray(cardsWithPrices)) setCards(cardsWithPrices) else setCards([])
FetchCardsJson(f) ==
  /\ fetchCalls[f].pc = "json"
  /\ \E rejected \in BOOLEAN, body \in Bodies :
       IF rejected THEN body = NULL /\ FetchCardsCatch(f)
       ELSE /\ cardsState' = IF body = NULL THEN <<>> ELSE body[1]
            /\ fetchCalls' = [fetchCalls EXCEPT ![f] = [pc |-> "done", setCards |-> Some(cardsState')]]
            /\ libraryLoading' = FALSE
            /\ UNCHANGED searchStatus
  /\ UNCHANGED <<app, loading, searchQuery, search, timers, backend>>

\* ------------------------------------------------ dashboard: handleSearch
\* onChange={(e) => setSearchQuery(e.target.value)}
SetSearchQuery ==
  /\ app # ""
  /\ \E q \in SearchQueries : searchQuery' = q
  /\ UNCHANGED <<app, cardsState, loading, libraryLoading, searchStatus, fetchCalls,
                 search, timers, backend>>

\* <form onSubmit={handleSearch}> with <button type="submit" disabled={loading}>
\* if (!searchQuery.trim()) return; setLoading(true); setSearchStatus(...); await fetch(...)
HandleSearch ==
  /\ app # ""
  /\ ~loading
  /\ search.pc = "idle"
  /\ Budget + (IF app = "src" THEN 1 ELSE 2) <= MaxFetches
  /\ IF Trim(searchQuery) = ""
       THEN UNCHANGED <<loading, searchStatus, search>>
       ELSE /\ loading' = TRUE
            /\ searchStatus' = IF app = "src" THEN "Scraping prices..." ELSE "Searching..."
            /\ search' = [search EXCEPT !.pc = "fetch"]
  /\ UNCHANGED <<app, cardsState, libraryLoading, searchQuery, fetchCalls, timers, backend>>

\* variant: the finally block is missing
HandleSearchCatchNoFinally ==
  /\ searchStatus' = "Error scraping card. Please try again."
  /\ search' = NoSearch
  /\ UNCHANGED <<loading, searchQuery, fetchCalls, libraryLoading, timers>>

\* catch (error) { setSearchStatus('... Error scraping card. Please try again.') } finally { setLoading(false) }
HandleSearchCatch ==
  /\ searchStatus' = "Error scraping card. Please try again."
  /\ loading' = FALSE
  /\ search' = NoSearch
  /\ UNCHANGED <<searchQuery, fetchCalls, libraryLoading, timers>>

\* await fetch(...) settles; card-frontend: if (!response.ok) throw
HandleSearchResponse ==
  /\ search.pc = "fetch"
  /\ \E outcome \in {"rejected", "not_ok", "ok"} :
       IF outcome = "rejected" \/ (outcome = "not_ok" /\ app = "card-frontend")
         THEN HandleSearchCatch
         ELSE /\ search' = [search EXCEPT !.pc = "json"]
              /\ UNCHANGED <<searchStatus, loading, searchQuery, fetchCalls, libraryLoading, timers>>
  /\ UNCHANGED <<app, cardsState, backend>>

\* const result = await response.json() settles
\* src: if (result.status === 'success') { ...; setTimeout(() => { fetchCards(); setSearchStatus('') }, 2000) }
\* card-frontend: setSearchStatus('Card scraped successfully!'); setSearchQuery(''); await fetchCards()
HandleSearchJson ==
  /\ search.pc = "json"
  /\ \E result \in {"rejected", "error", "success"} :
       IF result = "rejected" THEN HandleSearchCatch
       ELSE IF app = "src" THEN
         /\ IF result = "success"
              THEN /\ searchStatus' = "Card scraped successfully! Refreshing library..."
                   /\ searchQuery' = ""
                   /\ timers' = timers + 1
              ELSE /\ searchStatus' = "Failed to scrape card. Please try again."
                   /\ UNCHANGED <<searchQuery, timers>>
         /\ loading' = FALSE
         /\ search' = NoSearch
         /\ UNCHANGED <<fetchCalls, libraryLoading>>
       ELSE
         /\ searchStatus' = "Card scraped successfully!"
         /\ searchQuery' = ""
         /\ StartFetchCards
         /\ search' = [pc |-> "fetchCards", awaits |-> Len(fetchCalls) + 1]
         /\ UNCHANGED <<loading, timers>>
  /\ UNCHANGED <<app, cardsState, backend>>

\* card-frontend: await fetchCards() returns; setTimeout(async () => { await fetchCards() }, 2000);
\* finally { setLoading(false) }
HandleSearchFetched ==
  /\ search.pc = "fetchCards"
  /\ ~InFlight(search.awaits)
  /\ timers' = timers + 1
  /\ loading' = FALSE
  /\ search' = NoSearch
  /\ UNCHANGED <<app, cardsState, libraryLoading, searchStatus, searchQuery, fetchCalls, backend>>

\* variant: the callback does not call fetchCards
TimeoutNoFetch ==
  /\ timers > 0
  /\ timers' = timers - 1
  /\ searchStatus' = IF app = "src" THEN "" ELSE searchStatus
  /\ UNCHANGED <<app, cardsState, loading, libraryLoading, searchQuery, fetchCalls, search, backend>>

\* the setTimeout callback runs: fetchCards(), and in src setSearchStatus('')
Timeout ==
  /\ timers > 0
  /\ timers' = timers - 1
  /\ StartFetchCards
  /\ searchStatus' = IF app = "src" THEN "" ELSE searchStatus
  /\ UNCHANGED <<app, cardsState, loading, searchQuery, search, backend>>

\* ---------------------------------------------------- dashboard: render
\* variant: only null and undefined take the 'No Price Data' branch
HasPriceNotNull(card) == card.latest_price # NULL

\* card.latest_price && card.latest_price > 0
HasPrice(card) == card.latest_price # NULL /\ card.latest_price[1] # 0 /\ card.latest_price[1] > 0

\* {card.latest_price && card.latest_price > 0 ? (... Latest Price ...) : (... No Price Data Available ...)}
PriceInformation(card) ==
  IF HasPrice(card) THEN "Latest Price" ELSE "No Price Data Available"

\* ------------------------------------------------------------------ next
Next ==
  \/ \E r \in Reqs : Receive(r)
  \/ \E r \in Reqs : FetchScraper(r)
  \/ \E r \in Reqs : CheckCard(r)
  \/ \E r \in Reqs : InsertCard(r)
  \/ \E r \in Reqs : InsertPrices(r)
  \/ \E r \in Reqs : CheckCardPrice(r)
  \/ \E r \in Reqs : UpdateCardPrice(r)
  \/ \E r \in Reqs : InsertCardPrice(r)
  \/ Sync

Spec == Init /\ [][Next]_vars

\* one ingestion request and a client that writes to the read view
Client == "r1"

NextView ==
  \/ Receive(Client)
  \/ FetchScraper(Client)
  \/ CheckCard(Client)
  \/ InsertCard(Client)
  \/ InsertPrices(Client)
  \/ CheckCardPrice(Client)
  \/ InsertCardPrice(Client)
  \/ ViewWrite

SpecView == Init /\ [][NextView]_vars

\* the dashboard alone, with the answers of the network chosen freely
NextDash ==
  \/ Mount
  \/ Refresh
  \/ \E f \in 1..Len(fetchCalls) : FetchCardsResponse(f)
  \/ \E f \in 1..Len(fetchCalls) : FetchCardsText(f)
  \/ \E f \in 1..Len(fetchCalls) : FetchCardsJson(f)
  \/ SetSearchQuery
  \/ HandleSearch
  \/ HandleSearchResponse
  \/ HandleSearchJson
  \/ HandleSearchFetched
  \/ Timeout

SpecDash == Init /\ [][NextDash]_vars

\* every pending promise settles and every pending timer fires
FetchCardsSettles ==
  \E f \in 1..Len(fetchCalls) : FetchCardsResponse(f) \/ FetchCardsText(f) \/ FetchCardsJson(f)
HandleSearchSettles == HandleSearchResponse \/ HandleSearchJson \/ HandleSearchFetched

SpecDashFair ==
  /\ SpecDash
  /\ WF_vars(FetchCardsSettles)
  /\ WF_vars(HandleSearchSettles)
  /\ WF_vars(Timeout)

TypeOK ==
  /\ synced \in BOOLEAN
  /\ pc \in [Reqs -> {"idle", "fetchScraper", "checkCard", "insertCard", "insertPrices",
                      "checkCardPrice", "updateCardPrice", "insertCardPrice", "done"}]

\* ================================================================ claims
PricesOfCard(cardId) == PricesIn(EntriesOf(price_entries, cardId))
TimestampsOfCard(cardId) == TimestampsIn(EntriesOf(price_entries, cardId))

\* no request is inside the handler, and every request that ran returned success
AllSucceeded ==
  \A r \in Reqs : \/ pc[r] = "idle"
                  \/ pc[r] = "done" /\ response[r].body_status = "success"

AllPricesPositive == \A i \in 1..Len(price_entries) : price_entries[i].price > 0

\* C1: once every ingestion request has completed with success (and the prices
\* were all positive), the average of each card_prices row is the arithmetic
\* mean of ALL price_entries rows of its card, earlier ingestions included.
C1_AverageIsMeanOfAllEntries ==
  (AllSucceeded /\ AllPricesPositive) =>
    \A i \in 1..Len(card_prices) :
       PricesOfCard(card_prices[i].card_id) # <<>> =>
         card_prices[i].average_price =
           Rat(SumSeq(PricesOfCard(card_prices[i].card_id)),
               Len(PricesOfCard(card_prices[i].card_id)))

\* C2: once every ingestion request has completed with success, the price_count
\* exposed for a card by the read view and by the dashboard's card objects is
\* the number of price_entries rows of that card.
C2_CountIsNumberOfEntries ==
  (AllSucceeded /\ AllPricesPositive) =>
    /\ \A v \in cards_with_prices : v.price_count = Len(PricesOfCard(v.id))
    /\ \A c \in fetchPriceData : c.price_count = Len(PricesOfCard(c.id))

\* C3: once every ingestion request has completed with success, last_seen of
\* each card_prices row is the maximum timestamp over the price_entries rows of
\* its card (it never moves back to an older provider timestamp).
C3_LastSeenIsMaxTimestamp ==
  (AllSucceeded /\ AllPricesPositive) =>
    \A i \in 1..Len(card_prices) :
       TimestampsOfCard(card_prices[i].card_id) # <<>> =>
         card_prices[i].last_seen = MaxSeq(TimestampsOfCard(card_prices[i].card_id))

\* C4: running the sync (calculate_card_price_summary for every card, then the
\* UPDATE of card_prices) again, with no write of the handler since the last
\* run, changes no table: average_price and last_seen of every row stay as the
\* previous run left them, and so do the rows the summary is calculated from.
C4_RecomputeTwiceSame ==
  [][(synced /\ Sync) => UNCHANGED tables]_vars

\* the sync has corrected a summary: two requests stored one price each for the
\* same card, and its row holds the mean of both prices, which no request wrote
C4_Witness ==
  /\ synced
  /\ \A r \in Reqs : pc[r] = "done" /\ response[r].body_status = "success"
                     /\ response[r].data.priceEntriesInserted = 1
  /\ Len(card_prices) = 1
  /\ PricesOfCard(card_prices[1].card_id) = <<50, 100>>
  /\ card_prices[1].average_price = <<75, 1>>

\* C5: a bulk insert of price entries that fails stores no row of its batch,
\* and the request it belongs to has not written card_prices: no step of a
\* request up to and including its price_entries insert changes card_prices.
C5_FailedInsertStoresNothing ==
  [][\A r \in Reqs :
       /\ (pc[r] = "insertPrices" /\ pc'[r] = "done") =>
             (price_entries' = price_entries /\ card_prices' = card_prices)
       /\ (pc[r] \in {"idle", "fetchScraper", "checkCard", "insertCard", "insertPrices"}
           /\ pc'[r] # pc[r]) => card_prices' = card_prices]_vars

\* a request failed at its price_entries insert for a card that has a summary
C5_Witness ==
  \E r \in Reqs :
     /\ pc[r] = "done"
     /\ response[r].status = 500
     /\ response[r].data = <<"Error inserting price entries">>
     /\ card_prices # <<>>

\* C6: every stored price_entries row has price > 0 (a batch with a price <= 0
\* is rejected).
C6_StoredPricesPositive ==
  \A i \in 1..Len(price_entries) : price_entries[i].price > 0

\* C7: in cards_with_prices a card without price_entries rows has a NULL
\* latest_price.
C7_NoObservationsNullPrice ==
  \A v \in cards_with_prices : PricesOfCard(v.id) = <<>> => v.latest_price = NULL

\* C8: a card_prices row exists for a card only if the card owns at least one
\* price_entries row.
C8_SummaryOnlyWithEntries ==
  \A i \in 1..Len(card_prices) : PricesOfCard(card_prices[i].card_id) # <<>>

\* a summary row has been written
C8_Witness ==
  /\ card_prices # <<>>
  /\ \E r \in Reqs : pc[r] = "done" /\ response[r].body_status = "success"
                     /\ response[r].data.cardInserted

\* C9: a request writes no table up to and including its scraper call, and it
\* goes on to the tables only with a non-empty price list; with an empty or
\* missing list it returns at once, so cards, price_entries and card_prices are
\* the same before and after the request's steps.
C9_EmptyListWritesNothing ==
  [][\A r \in Reqs :
       (pc[r] \in {"idle", "fetchScraper"} /\ pc'[r] # pc[r]) =>
          /\ tables' = tables
          /\ pc'[r] \notin {"fetchScraper", "done"} =>
                (req'[r].outcome = "ok" /\ req'[r].prices # <<>>)]_vars

\* a request whose scraper call returned an empty list has returned, while the
\* tables hold the rows of another request
C9_Witness ==
  \E r \in Reqs :
     /\ pc[r] = "done"
     /\ req[r].outcome = "ok"
     /\ response[r].message = "No prices found in scraper response"
     /\ cards # <<>> /\ price_entries # <<>> /\ card_prices # <<>>

\* C10: a request whose provider call succeeded with zero prices gets a
\* successful, non-error response.
C10_NoPricesIsSuccess ==
  \A r \in Reqs :
     (pc[r] = "done" /\ req[r].outcome = "ok" /\ response[r].data = <<>>
      /\ response[r].message = "No prices found in scraper response") =>
        (response[r].status = 200 /\ response[r].body_status # "error")

\* C11: a request whose scraper call fails (non-OK status or unparsable
\* payload) returns at that step with status 500, which is not the validation
\* status 400, and the step leaves cards, price_entries and card_prices as
\* they were; the request wrote nothing before it either (C9).
C11_ProviderFailureWritesNothing ==
  [][\A r \in Reqs :
       (pc[r] = "fetchScraper" /\ pc'[r] # pc[r]
        /\ req'[r].outcome \in {"http_error", "bad_json"}) =>
          /\ tables' = tables
          /\ pc'[r] = "done"
          /\ response'[r].status = 500
          /\ response'[r].status # 400
          /\ response'[r].body_status = "error"]_vars

\* a request has returned from a failed scraper call, next to the stored rows
\* of another request
C11_Witness ==
  \E r \in Reqs :
     /\ pc[r] = "done"
     /\ req[r].outcome = "http_error"
     /\ response[r].status = 500
     /\ cards # <<>> /\ price_entries # <<>> /\ card_prices # <<>>

\* C12: a POST whose body has no query, an empty query or a query that is not
\* a string is answered in its first step with status 400; the request never
\* reaches the scraper call and the step leaves the three tables unchanged.
C12_InvalidQueryRejected ==
  [][\A r \in Reqs :
       (pc[r] = "idle" /\ pc'[r] # "idle"
        /\ req'[r].body \in {"missing", "empty", "nonstring"}) =>
          /\ pc'[r] = "done"
          /\ response'[r].status = 400
          /\ response'[r].body_status = "error"
          /\ tables' = tables]_vars

\* a request with a non-string query has been answered 400, next to the
\* stored rows of another request
C12_Witness ==
  \E r \in Reqs :
     /\ pc[r] = "done"
     /\ req[r].body = "nonstring"
     /\ response[r].status = 400
     /\ cards # <<>> /\ price_entries # <<>>

\* the messages of the errors thrown by the handler's table accesses
StorageErrors ==
  {"Error checking card existence", "Error inserting card", "Error inserting price entries",
   "Error checking card price existence", "Error updating card price",
   "Error inserting card price"}

StorageFailed(r) ==
  /\ pc[r] = "done"
  /\ response[r].status = 500
  /\ response[r].data # <<>>
  /\ response[r].data[1] \in StorageErrors

\* C13: when every request that ran was stopped by a failed storage operation
\* and none is still running, the database is as it was before them: cards,
\* price_entries and card_prices are empty as at the start.
C13_StorageFailureRollsBack ==
  (\A r \in Reqs : pc[r] = "idle" \/ StorageFailed(r)) =>
     (cards = <<>> /\ price_entries = <<>> /\ card_prices = <<>>)

\* C14: no two rows of cards carry the same name.
C14_OneCardPerName ==
  \A i, j \in 1..Len(cards) : cards[i].name = cards[j].name => i = j

\* two requests raced for one new name: one is about to insert the card it did
\* not find, while the other's row of that name is already stored
C14_Witness ==
  \E r \in Reqs :
     /\ pc[r] = "insertCard"
     /\ CardIdsNamed(req[r].query) # {}

\* C15: a request that goes to insert a card whose name another request has
\* stored meanwhile takes the stored row's id and goes on to insert its
\* prices; it does not return an error.
C15_RaceLoserContinues ==
  [][\A r \in Reqs :
       (pc[r] = "insertCard" /\ pc'[r] # pc[r] /\ CardIdsNamed(req[r].query) # {}) =>
          /\ pc'[r] = "insertPrices"
          /\ req'[r].cardId \in CardIdsNamed(req[r].query)]_vars

\* C16: once two requests have both completed with success and left two
\* positive price_entries rows on one single card (one observation each), the
\* card has one card_prices row whose average is the mean of both prices and
\* the read view reports a count of 2.
C16_BothBatchesInSummary ==
  (/\ \A r \in Reqs : pc[r] = "done" /\ response[r].body_status = "success"
   /\ AllPricesPositive
   /\ Len(cards) = 1
   /\ Len(price_entries) = 2) =>
     /\ Len(card_prices) = 1
     /\ card_prices[1].average_price = AVG(PricesOfCard(cards[1].id))
     /\ \A row \in cards_with_prices : row.price_count = 2

\* C17: in every state, each card that has rows in price_entries has a row in
\* card_prices (the least a reader needs to see a summary that covers them).
C17_EntriesNeverAheadOfSummary ==
  \A i \in 1..Len(price_entries) : CardPriceRows(price_entries[i].card_id) # {}

\* C18: every step leaves at most one card_prices row per card, and a step
\* that ends an ingestion with success leaves exactly one row for its card.
C18_OneSummaryPerCard ==
  [][/\ \A i, j \in 1..Len(card_prices') :
          card_prices'[i].card_id = card_prices'[j].card_id => i = j
     /\ \A r \in Reqs :
          (pc[r] \in {"updateCardPrice", "insertCardPrice"} /\ pc'[r] = "done"
           /\ response'[r].body_status = "success") =>
             Cardinality({i \in 1..Len(card_prices') :
                            card_prices'[i].card_id = req[r].cardId}) = 1]_vars

\* two requests raced on one card: one is about to insert the card_prices row
\* it did not find, while the other's row for that card is already stored
C18_Witness ==
  \E r \in Reqs :
     /\ pc[r] = "insertCardPrice"
     /\ CardPriceRows(req[r].cardId) # {}

\* C19: a write statement issued against cards_with_prices is rejected and
\* leaves cards, price_entries and card_prices as they were; the tables change
\* only in steps of the handler.
C19_ViewIsReadOnly ==
  [][/\ ViewWrite => (view_result'.rejected /\ tables' = tables)
     /\ tables' # tables => pc' # pc]_vars

\* a DELETE on the view has been rejected while the three tables hold rows
C19_Witness ==
  /\ view_result = [op |-> "delete", rejected |-> TRUE]
  /\ cards # <<>> /\ price_entries # <<>> /\ card_prices # <<>>

\* C20: for every minimum price T, the rows of the read view that pass the
\* dashboard's minimum-price filter have a latest_price of at least T and
\* belong to cards that have an average (a card_prices row).
C20_MinFilterExcludesUnpriced ==
  \A T \in PriceBounds :
     \A card \in getFilteredCards(cards_with_prices, "", FALSE, Some(T), NULL) :
        /\ PriceGeq(card.latest_price, T)
        /\ CardPriceRows(card.id) # {}

\* the card of the request's query has a card_prices row that already holds
\* the average and timestamp of the request's scraper response
SameAsStored(r) ==
  \E c \in CardIdsNamed(req[r].query) :
     \E i \in CardPriceRows(c) :
        /\ card_prices[i].average_price = req[r].average
        /\ card_prices[i].last_seen = req[r].timestamp

\* C21: a request whose query and scraper response were stored by an earlier
\* invocation (the card exists and its card_prices row holds the response's
\* average and timestamp) finds exactly one cards row and one card_prices row
\* for the name, and none of its steps changes cards or card_prices.
C21_RepeatedInvocationSameSummary ==
  [][\A r \in Reqs :
       (/\ pc[r] \in {"checkCard", "insertCard", "insertPrices", "checkCardPrice",
                      "updateCardPrice", "insertCardPrice"}
        /\ pc'[r] # pc[r]
        /\ SameAsStored(r)) =>
          /\ Cardinality(CardIdsNamed(req[r].query)) = 1
          /\ \A c \in CardIdsNamed(req[r].query) : Cardinality(CardPriceRows(c)) = 1
          /\ cards' = cards
          /\ card_prices' = card_prices]_vars

\* the same response was ingested twice with success: one card, one
\* card_prices row, and the batch stored twice in price_entries
C21_Witness ==
  /\ \A r \in Reqs : pc[r] = "done" /\ response[r].body_status = "success"
  /\ \E r \in Reqs : ~response[r].data.cardInserted
  /\ Len(cards) = 1 /\ Len(card_prices) = 1
  /\ Len(price_entries) = 2 /\ price_entries[1] = price_entries[2]
  /\ card_prices[1].last_seen = price_entries[1].timestamp

IsPrefix(s, t) == Len(s) <= Len(t) /\ SubSeq(t, 1, Len(s)) = s

\* C24: every step keeps the rows that cards and price_entries already hold,
\* unchanged and in place; a step can only add rows after them.
C24_AppendOnly ==
  [][IsPrefix(cards, cards') /\ IsPrefix(price_entries, price_entries')]_vars

\* a second ingestion for a stored card has added its rows after the first's
C24_Witness ==
  /\ \E r \in Reqs : /\ pc[r] = "done" /\ response[r].body_status = "success"
                     /\ ~response[r].data.cardInserted
  /\ Len(cards) = 1
  /\ Len(price_entries) > 2
  /\ price_entries[1].timestamp # price_entries[Len(price_entries)].timestamp

\* C25: when the sync UPDATE was the last statement to write a table, every
\* card_prices row holds AVG(price) and MAX(timestamp) over the price_entries
\* rows of its card.
C25_SyncSetsAvgAndMax ==
  synced =>
    \A i \in 1..Len(card_prices) :
       /\ card_prices[i].average_price = AVG(PricesOfCard(card_prices[i].card_id))
       /\ Some(card_prices[i].last_seen) = MAX(TimestampsOfCard(card_prices[i].card_id))

\* the sync has moved last_seen of a row back up to the newest entry, after the
\* handler had set it to the older timestamp of the batch written last
C25_Witness ==
  /\ synced
  /\ Len(card_prices) = 1
  /\ \A r \in Reqs : pc[r] = "done" /\ response[r].body_status = "success"
  /\ price_entries # <<>>
  /\ price_entries[Len(price_entries)].timestamp < card_prices[1].last_seen

\* C30: a request whose method is not POST is answered in its first step, with
\* 200 'ok' for OPTIONS and with 405 for any other method; it never reaches the
\* scraper call or a table access, and the step leaves the tables unchanged.
C30_MethodCheck ==
  [][\A r \in Reqs :
       (pc[r] = "idle" /\ pc'[r] # "idle" /\ req'[r].method # "POST") =>
          /\ pc'[r] = "done"
          /\ req'[r].outcome = ""
          /\ tables' = tables
          /\ IF req'[r].method = "OPTIONS"
               THEN response'[r].status = 200 /\ response'[r].message = "ok"
               ELSE response'[r].status = 405 /\ response'[r].body_status = "error"]_vars

\* one request was answered 405 and the other 'ok'
C30_Witness ==
  \E r, q \in Reqs :
     /\ pc[r] = "done" /\ req[r].method = "GET" /\ response[r].status = 405
     /\ pc[q] = "done" /\ req[q].method = "OPTIONS" /\ response[q].message = "ok"

\* C26: for every minimum and maximum entered in the filter, each row of the
\* read view that getFilteredCards returns has its latest_price within the
\* bounds that are set, and, as soon as one bound is set, belongs to a card
\* that has a price (a card_prices row).
C26_RangeFilterExcludesUnpriced ==
  \A min \in PriceInputs, max \in PriceInputs :
     \A card \in getFilteredCards(cards_with_prices, "", FALSE, min, max) :
        /\ min # NULL => PriceGeq(card.latest_price, min[1])
        /\ max # NULL => PriceLeq(card.latest_price, max[1])
        /\ (min # NULL \/ max # NULL) => CardPriceRows(card.id) # {}

\* the step in which handleSearch learns that the search succeeded
SearchSucceeds ==
  /\ search.pc = "json"
  /\ searchStatus' \in {"Card scraped successfully! Refreshing library...",
                        "Card scraped successfully!"}

C23_NoPriceWithoutPositiveValue ==
  \A i \in 1..Len(cardsState) :
     (cardsState[i].latest_price = NULL \/ cardsState[i].latest_price[1] <= 0) =>
        PriceInformation(cardsState[i]) = "No Price Data Available"

\* the displayed list holds a card with latest_price 0, rendered without a
\* price, next to a card rendered with its price
C23_Witness ==
  \E i, j \in 1..Len(cardsState) :
     /\ cardsState[i].latest_price = Zero
     /\ PriceInformation(cardsState[i]) = "No Price Data Available"
     /\ PriceInformation(cardsState[j]) = "Latest Price"

\* C27: once no fetchCards invocation is in progress and the one started last
\* has set the list, the displayed list is the one it set.
C27_LastStartedFetchWins ==
  (/\ Len(fetchCalls) >= 2
   /\ \A f \in 1..Len(fetchCalls) : ~InFlight(f)
   /\ fetchCalls[Len(fetchCalls)].pc = "done") =>
     cardsState = fetchCalls[Len(fetchCalls)].setCards[1]

\* C28: a fetchCards invocation that fails (rejected fetch, non-OK response or
\* unparsable body) leaves the displayed list as it was and sets the status to
\* 'Error loading card library'.
C28_FailedFetchKeepsCards ==
  [][\A f \in 1..Len(fetchCalls) :
       (InFlight(f) /\ fetchCalls'[f].pc = "failed") =>
          /\ cardsState' = cardsState
          /\ searchStatus' = "Error loading card library"]_vars

\* a library fetch has failed while a list loaded earlier is displayed
C28_Witness ==
  /\ cardsState # <<>>
  /\ searchStatus = "Error loading card library"
  /\ \E f \in 1..Len(fetchCalls) : fetchCalls[f].pc = "failed"
  /\ \A f \in 1..Len(fetchCalls) : ~InFlight(f)

\* the f-th invocation of fetchCards has started and has not ended
Pending(f) == f <= Len(fetchCalls) /\ InFlight(f)

\* C29: the step that ends a fetchCards invocation, on any path, leaves
\* libraryLoading false, and the step that ends a handleSearch invocation
\* leaves loading false; every invocation that was started reaches that step.
C29_FlagsCleared ==
  /\ [][\A f \in 1..Len(fetchCalls) :
          (InFlight(f) /\ fetchCalls'[f].pc \in {"done", "failed"}) => ~libraryLoading']_vars
  /\ [][(search.pc # "idle" /\ search'.pc = "idle") => ~loading']_vars
  /\ \A f \in 1..MaxFetches :
        Pending(f) ~> (~Pending(f) /\ ~libraryLoading)
  /\ (search.pc # "idle") ~> (search.pc = "idle" /\ ~loading)

\* a search has ended in the catch block and every library fetch has ended,
\* one of them with an error; both flags are false
C29_Witness ==
  /\ searchStatus = "Error scraping card. Please try again."
  /\ search.pc = "idle" /\ ~loading
  /\ Len(fetchCalls) = MaxFetches
  /\ \A f \in 1..Len(fetchCalls) : ~InFlight(f)
  /\ \E f \in 1..Len(fetchCalls) : fetchCalls[f].pc = "failed"
  /\ ~libraryLoading
====
